---- MODULE Spec2Model ----
(***************************************************************************)
(* Micro-Pickup: a micro:bit game.  The player walks in cardinal           *)
(* directions over a 5x5 LED grid and collects pickups; every cleared      *)
(* level spawns one more pickup.  The model follows src/MicroPickup.py     *)
(* (src/MicroPickupCommented.py is the same program with comments).        *)
(***************************************************************************)
EXTENDS Integers, Sequences, FiniteSets, TLC

\* ------------------------------------------------------------------------
\* Program constants
\* ------------------------------------------------------------------------
MAX_POSITION == 4
MIN_POSITION == 0
SCREEN_CENTER == 2
acceleration_needed_to_move == 1200
PLAYER_BRIGHTNESS == 9
PICKUP_BRIGHTNESS == 3
INITIAL_PICKUP_AMOUNT == 4
MS_PER_SECOND == 1000
HEADING_READS == 8

\* ------------------------------------------------------------------------
\* Bounds of the model
\* ------------------------------------------------------------------------
\* Number of levels played before the model stops starting new ones.
MaxLevel == 2
\* Largest clock reading the platform clock returns, in half seconds.
MaxHalfSeconds == 6
\* Integers fed to constrainToBoundaries range over -MaxValue..MaxValue.
MaxValue == 60
\* Longest pickup collection handed to a single update call.
MaxPickups == 4

\* ------------------------------------------------------------------------
\* Input domains
\* ------------------------------------------------------------------------
Grid == MIN_POSITION..MAX_POSITION
Directions == {"N", "S", "W", "E", ""}
\* Pairs of random.randrange(MAX_POSITION + 1) draws a new Pickup makes in
\* the game loop: the centre cell, where the player starts, and the cell one
\* step east and one step north of it.
RandCells == {<<2, 2>>, <<3, 1>>}
\* compass.heading() values: one inside each sector, each sector boundary.
GameHeadings == {0, 45, 90, 180, 270}
AllHeadings == 0..359
\* accelerometer axis readings (milli-g).
AccelVals == {-1201, -1200, 0, 1, 692, 693, 1000, 1200, 1201}
AtRest == <<1000, 0, 0>>
Shaken == <<1201, 0, 0>>
GameAccels == {AtRest, Shaken}
\* What one tick of the game loop senses: the accelerometer reading and the
\* two buttons.  The game loop is explored with a shake or one button per
\* tick; SpecInput explores every combination.
GameInputs == {<<AtRest, FALSE, FALSE>>, <<Shaken, FALSE, FALSE>>,
               <<AtRest, TRUE, FALSE>>, <<AtRest, FALSE, TRUE>>}
\* microbit.running_time() readings.
Times == {500 * k : k \in 0..MaxHalfSeconds}


VARIABLES
    pc,                \* position of playGame (or of the single call under test)
    player,            \* Game.player: [x, y, brightness]
    pickups,           \* Game.pickups: sequence of [x, y, brightness]
    pickup_amount,     \* playGame's local pickup_amount
    game_running,      \* Game.game_running
    level_start_time,  \* playGame's local level_start_time
    clock,             \* last value microbit.running_time() returned
    time_shown,        \* seconds in the last "TIME:n SECONDS." scroll, -1 if none
    level,             \* number of startLevel calls made so far
    heading,           \* compass readings given to the call under test
    accel,             \* accelerometer reading given to the call under test
    direction,         \* direction argument / findApproxFacingDirection result
    value,             \* integer given to constrainToBoundaries
    result,            \* what constrainToBoundaries returned
    prev,              \* player and pickups before the call under test
    display,           \* the LED matrix: brightness of every cell <<x, y>>
    calls,             \* the calls the last statement made, in order
    store,             \* the Position objects and who refers to which
    commented          \* the state of MicroPickupCommented.py run alongside

vars == <<pc, player, pickups, pickup_amount, game_running, level_start_time,
          clock, time_shown, level, heading, accel, direction, value, result,
          prev, display, calls, store, commented>>

gameVars == <<pc, player, pickups, pickup_amount, game_running,
              level_start_time, clock, time_shown, level, display, calls>>
callVars == <<heading, accel, direction, value, result, prev, store,
              commented>>

\* ------------------------------------------------------------------------
\* Player
\* ------------------------------------------------------------------------
\* Player.__init__: the player sits on the centre cell with brightness 9.
NewPlayer == [x |-> SCREEN_CENTER, y |-> SCREEN_CENTER,
              brightness |-> PLAYER_BRIGHTNESS]

\* Variant: only the column is reset.
resetColumn(p) == [p EXCEPT !.x = SCREEN_CENTER]

\* Player.reset: back to the centre, brightness untouched.
reset(p) == [p EXCEPT !.x = SCREEN_CENTER, !.y = SCREEN_CENTER]

\* Variant: the lower bound is not checked.
clampNoLower(v) ==
    IF v > MAX_POSITION THEN MAX_POSITION ELSE v

\* Variant: the upper bound is not checked.
clampNoUpper(v) ==
    IF v < MIN_POSITION THEN MIN_POSITION ELSE v

\* Player.constrainToBoundaries
constrainToBoundaries(v) ==
    IF v < MIN_POSITION THEN MIN_POSITION
    ELSE IF v > MAX_POSITION THEN MAX_POSITION
    ELSE v

\* Variant: the edges wrap around instead of saturating.
moveWrap(p, d) ==
    LET size == MAX_POSITION + 1
    IN IF d = "N" THEN [p EXCEPT !.y = (p.y - 1) % size]
       ELSE IF d = "S" THEN [p EXCEPT !.y = (p.y + 1) % size]
       ELSE IF d = "W" THEN [p EXCEPT !.x = (p.x - 1) % size]
       ELSE IF d = "E" THEN [p EXCEPT !.x = (p.x + 1) % size]
       ELSE p

\* Variant: a direction that is none of N, S, W, E counts as North.
moveElseNorth(p, d) ==
    IF d = "S" THEN [p EXCEPT !.y = constrainToBoundaries(p.y + 1)]
    ELSE IF d = "W" THEN [p EXCEPT !.x = constrainToBoundaries(p.x - 1)]
    ELSE IF d = "E" THEN [p EXCEPT !.x = constrainToBoundaries(p.x + 1)]
    ELSE [p EXCEPT !.y = constrainToBoundaries(p.y - 1)]

\* Player.move: any value other than N, S, W, E leaves the player alone.
move(p, d) ==
    IF d = "N" THEN [p EXCEPT !.y = constrainToBoundaries(p.y - 1)]
    ELSE IF d = "S" THEN [p EXCEPT !.y = constrainToBoundaries(p.y + 1)]
    ELSE IF d = "W" THEN [p EXCEPT !.x = constrainToBoundaries(p.x - 1)]
    ELSE IF d = "E" THEN [p EXCEPT !.x = constrainToBoundaries(p.x + 1)]
    ELSE p

\* ------------------------------------------------------------------------
\* Pickup
\* ------------------------------------------------------------------------
\* Pickup.__init__: an own Position from two random draws, brightness 3.
Pickup(rx, ry) == [x |-> rx, y |-> ry, brightness |-> PICKUP_BRIGHTNESS]

\* Game.spawnPickups: clear the list, then append `amount` new pickups;
\* draws[i] is the pair of random numbers the i-th Pickup() drew.
spawnPickups(amount, draws) ==
    [i \in 1..amount |-> Pickup(draws[i][1], draws[i][2])]

\* ------------------------------------------------------------------------
\* Direction sensing
\* ------------------------------------------------------------------------
\* Game.findApproxFacingDirection.  h is the sequence of values the
\* successive compass.heading() calls return; `or` and `and` short-circuit,
\* so a comparison that is skipped does not consume a reading.
eastBranch(h, k) ==
    IF h[k] > 45 /\ h[k + 1] < 135 THEN "E" ELSE ""

southBranch(h, k) ==
    IF h[k] > 135
    THEN IF h[k + 1] < 225 THEN "S" ELSE eastBranch(h, k + 2)
    ELSE eastBranch(h, k + 1)

westBranch(h, k) ==
    IF h[k] > 225
    THEN IF h[k + 1] < 315 THEN "W" ELSE southBranch(h, k + 2)
    ELSE southBranch(h, k + 1)

\* Variant: the north sector takes in its 315 degree boundary.
findDirectionInclusive(h) ==
    IF h[1] >= 315 THEN "N"
    ELSE IF h[2] < 45 THEN "N"
    ELSE westBranch(h, 3)

findApproxFacingDirection(h) ==
    IF h[1] > 315 THEN "N"
    ELSE IF h[2] < 45 THEN "N"
    ELSE westBranch(h, 3)

\* The number of compass.heading() reads the call makes on the readings h:
\* the same tests as above, counting the reads instead of naming the result.
eastReads(h, k) == IF h[k] > 45 THEN k + 1 ELSE k

southReads(h, k) ==
    IF h[k] > 135
    THEN IF h[k + 1] < 225 THEN k + 1 ELSE eastReads(h, k + 2)
    ELSE eastReads(h, k + 1)

westReads(h, k) ==
    IF h[k] > 225
    THEN IF h[k + 1] < 315 THEN k + 1 ELSE southReads(h, k + 2)
    ELSE southReads(h, k + 1)

readsUsed(h) ==
    IF h[1] > 315 THEN 1
    ELSE IF h[2] < 45 THEN 2
    ELSE westReads(h, 3)

\* A heading that does not change while the call runs.
Steady(d) == [i \in 1..HEADING_READS |-> d]

\* ------------------------------------------------------------------------
\* Motion trigger
\* ------------------------------------------------------------------------
\* Largest r in lo..hi with r * r <= n (lo * lo <= n < (hi + 1) * (hi + 1)).
rootBetween[lo \in Nat, hi \in Nat, n \in Nat] ==
    IF lo >= hi THEN lo
    ELSE IF ((lo + hi + 1) \div 2) * ((lo + hi + 1) \div 2) <= n
         THEN rootBetween[(lo + hi + 1) \div 2, hi, n]
         ELSE rootBetween[lo, ((lo + hi + 1) \div 2) - 1, n]

\* A power of two, h or above, whose square is above n.
rootBound[h \in Nat, n \in Nat] ==
    IF h * h > n THEN h ELSE rootBound[2 * h, n]

\* math.sqrt of a non-negative integer: whole is its integer part, frac says
\* whether a fractional part follows (the root is not an integer).
sqrt(n) ==
    LET r == rootBetween[0, rootBound[1, n], n]
    IN [whole |-> r, frac |-> r * r # n]

\* Game.getAcceleration: a = <<x, y, z>> are the three axis readings.
getAcceleration(a) == sqrt(a[1] * a[1] + a[2] * a[2] + a[3] * a[3])

\* Variant: root >= n.
reaches(root, n) == root.whole >= n

\* root > n for a root as sqrt returns it and an integer n.
exceeds(root, n) == root.whole > n \/ (root.whole = n /\ root.frac)

\* ------------------------------------------------------------------------
\* Collision update
\* ------------------------------------------------------------------------
\* Variant: the head of the list is removed, whichever element matched.
removeHead(list, i) == Tail(list)

\* list.remove(pickup) for the element the iterator stands on: pickups have
\* no __eq__, so the element removed is the one at the iterator's index.
removeAt(list, i) ==
    [j \in 1..(Len(list) - 1) |-> IF j < i THEN list[j] ELSE list[j + 1]]

\* The for loop of Game.update: the list iterator steps to the next index
\* after every element, also after one that was just removed.
RECURSIVE updateFrom(_, _, _)
updateFrom(list, i, p) ==
    IF i > Len(list) THEN list
    ELSE IF list[i].x = p.x /\ list[i].y = p.y
         THEN updateFrom(removeAt(list, i), i + 1, p)
         ELSE updateFrom(list, i + 1, p)

\* Game.update
update(list, p) == updateFrom(list, 1, p)

\* Variant: the level counts as over with one pickup left.
isGameOverEarly(list) == Len(list) < 2

\* Game.isGameOver
isGameOver(list) == Len(list) < 1

\* Variant: rounds to the nearest second.
roundSeconds(ms) == (ms + 500) \div MS_PER_SECOND

\* int(x / 1000) for an integer x: Python's int() truncates toward zero.
truncSeconds(ms) ==
    IF ms >= 0 THEN ms \div MS_PER_SECOND ELSE -((-ms) \div MS_PER_SECOND)

\* ------------------------------------------------------------------------
\* Display and platform calls
\* ------------------------------------------------------------------------
SCROLL_DELAY == 100
SLEEP_MS == 100

\* microbit.display.clear(): every LED off.
Blank == [c \in Grid \X Grid |-> 0]

\* microbit.display.set_pixel(x, y, b)
set_pixel(d, x, y, b) == [d EXCEPT ![<<x, y>>] = b]

\* Game.drawPickups: one set_pixel per pickup, in list order, so a cell
\* ends with the brightness of the last pickup of the list that lies on it.
drawPickups(d, list) ==
    [c \in DOMAIN d |->
        LET on == {i \in 1..Len(list) : <<list[i].x, list[i].y>> = c}
        IN IF on = {} THEN d[c]
           ELSE list[CHOOSE i \in on : \A j \in on : j <= i].brightness]

\* Player.draw
drawPlayer(d, p) == set_pixel(d, p.x, p.y, p.brightness)

\* Variant: the player is drawn first and the pickups over it.
drawPlayerFirst(list, p) == drawPickups(drawPlayer(Blank, p), list)

\* Game.draw: clear, then the pickups, then the player.
draw(list, p) == drawPlayer(drawPickups(Blank, list), p)

\* One call of a platform function or of a method of the game: its name,
\* its text argument and its numeric arguments (0 where it has none).
Call(op, text, x, y, n) == [op |-> op, text |-> text, x |-> x, y |-> y, n |-> n]
Plain(op) == Call(op, "", 0, 0, 0)

\* display.scroll moves the text across the LED matrix and leaves it blank;
\* compass.calibrate draws on the matrix while the user tilts the device and
\* leaves it blank as well.
afterScroll(d) == Blank
afterCalibrate(d) == Blank

\* The matrix after Game.getInput: button B scrolls, button A (looked at
\* only when B was not pressed) calibrates.
getInputDisplay(d, b_pressed, a_pressed) ==
    IF b_pressed THEN afterScroll(d)
    ELSE IF a_pressed THEN afterCalibrate(d)
    ELSE d

\* The calls of Game.setup: the compass is calibrated unless it already is.
setupCalls(is_calibrated) ==
    <<Plain("is_calibrated")>>
    \o (IF is_calibrated THEN <<>> ELSE <<Plain("calibrate")>>)

\* The calls of Game.getInput, in order: the direction is sensed, then the
\* acceleration, then the player is moved if the threshold is passed, then
\* the buttons are handled (B first, A only if B was not pressed).  h2 are
\* the compass readings of the second findApproxFacingDirection call, the
\* one whose result is scrolled.
getInputCalls(h, a, b_pressed, a_pressed, h2) ==
    <<Plain("findApproxFacingDirection"), Plain("getAcceleration")>>
    \o (IF exceeds(getAcceleration(a), acceleration_needed_to_move)
        THEN <<Call("move", findApproxFacingDirection(h), 0, 0, 0)>>
        ELSE <<>>)
    \o <<Plain("button_b.was_pressed")>>
    \o (IF b_pressed
        THEN <<Plain("findApproxFacingDirection"),
               Call("scroll", findApproxFacingDirection(h2), 0, 0,
                    SCROLL_DELAY)>>
        ELSE <<Plain("button_a.was_pressed")>>
             \o (IF a_pressed THEN <<Plain("calibrate")>> ELSE <<>>))

\* The calls of Game.draw, in order.
drawCalls(list, p) ==
    <<Plain("clear")>>
    \o [i \in 1..Len(list) |->
           Call("set_pixel", "", list[i].x, list[i].y, list[i].brightness)]
    \o <<Call("set_pixel", "", p.x, p.y, p.brightness)>>

\* ------------------------------------------------------------------------
\* The Position objects.  GameObject declares position as a class attribute,
\* one Position object that every instance without a position of its own
\* reads and writes; an assignment self.position = Position() gives the
\* instance its own.  cells maps the address of every live Position to its
\* x and y, playerPos and pickupPos are the addresses self.position
\* resolves to for the player and for each pickup of the list, next is the
\* first address not yet used.
\* ------------------------------------------------------------------------
ClassPosition == 0

\* After the class bodies have run: Game.player = Player() has written the
\* centre through the class attribute.
NewStore ==
    [cells |-> [a \in {ClassPosition} |->
                  [x |-> SCREEN_CENTER, y |-> SCREEN_CENTER]],
     playerPos |-> ClassPosition,
     pickupPos |-> <<>>,
     next |-> ClassPosition + 1]

\* Variant: Pickup.__init__ without self.position = Position(); every
\* pickup writes its coordinates through the class attribute.
spawnRefsShared(st, amount, draws) ==
    [st EXCEPT
        !.cells = [a \in {ClassPosition} |->
                      IF amount = 0 THEN st.cells[a]
                      ELSE [x |-> draws[amount][1], y |-> draws[amount][2]]],
        !.pickupPos = [i \in 1..amount |-> ClassPosition]]

\* Game.spawnPickups: the list is cleared, which frees the Positions only
\* its pickups referred to, and every new Pickup gets a Position of its own
\* at a fresh address and writes its two random numbers there.
spawnRefs(st, amount, draws) ==
    LET old == {st.pickupPos[i] : i \in 1..Len(st.pickupPos)}
                  \ {st.playerPos}
        new == st.next..(st.next + amount - 1)
    IN [st EXCEPT
           !.cells = [a \in (DOMAIN st.cells \ old) \cup new |->
                         IF a \in new
                         THEN [x |-> draws[a - st.next + 1][1],
                               y |-> draws[a - st.next + 1][2]]
                         ELSE st.cells[a]],
           !.pickupPos = [i \in 1..amount |-> st.next + i - 1],
           !.next = st.next + amount]

\* Player.reset and Player.move write through self.position.
resetRef(st) ==
    [st EXCEPT !.cells[st.playerPos] =
                   [x |-> SCREEN_CENTER, y |-> SCREEN_CENTER]]

moveRef(st, d) == [st EXCEPT !.cells[st.playerPos] = move(@, d)]

\* Game.startLevel
startLevelRef(st, amount, draws) == resetRef(spawnRefs(st, amount, draws))

\* Game.getInput
getInputRef(st, h, a) ==
    IF exceeds(getAcceleration(a), acceleration_needed_to_move)
    THEN moveRef(st, findApproxFacingDirection(h))
    ELSE st

\* Game.update: the same loop as update, on the pickups read through their
\* addresses; a removed pickup's Position is freed.
updateRef(st) ==
    LET read == [i \in 1..Len(st.pickupPos) |->
                    [x |-> st.cells[st.pickupPos[i]].x,
                     y |-> st.cells[st.pickupPos[i]].y,
                     at |-> st.pickupPos[i]]]
        kept == update(read, st.cells[st.playerPos])
        live == {kept[i].at : i \in 1..Len(kept)} \cup {st.playerPos}
    IN [st EXCEPT !.cells = [a \in live |-> st.cells[a]],
                  !.pickupPos = [i \in 1..Len(kept) |-> kept[i].at]]

\* ------------------------------------------------------------------------
\* MicroPickupCommented.py, the same game with comments.  Its Player has
\* one more field, completion_time, and its constrainToBoundaries is a
\* static method.
\* ------------------------------------------------------------------------
NewPlayerCommented ==
    [x |-> SCREEN_CENTER, y |-> SCREEN_CENTER,
     brightness |-> PLAYER_BRIGHTNESS, completion_time |-> 0]

\* The state of the commented program after construction.
NewCommented ==
    [pc |-> "setup", player |-> NewPlayerCommented, pickups |-> <<>>,
     pickup_amount |-> 0, game_running |-> TRUE, level_start_time |-> 0,
     display |-> Blank, calls |-> <<>>]

\* Variant: reset clears completion_time and leaves the position alone.
resetCommentedTimeOnly(p) == [p EXCEPT !.completion_time = 0]

\* Player.reset
resetCommented(p) ==
    [p EXCEPT !.completion_time = 0,
              !.x = SCREEN_CENTER, !.y = SCREEN_CENTER]

\* Player.constrainToBoundaries, a static method here
constrainToBoundariesStatic(v) ==
    IF v < MIN_POSITION THEN MIN_POSITION
    ELSE IF v > MAX_POSITION THEN MAX_POSITION
    ELSE v

\* Player.move
moveCommented(p, d) ==
    IF d = "N" THEN [p EXCEPT !.y = constrainToBoundariesStatic(p.y - 1)]
    ELSE IF d = "S" THEN [p EXCEPT !.y = constrainToBoundariesStatic(p.y + 1)]
    ELSE IF d = "W" THEN [p EXCEPT !.x = constrainToBoundariesStatic(p.x - 1)]
    ELSE IF d = "E" THEN [p EXCEPT !.x = constrainToBoundariesStatic(p.x + 1)]
    ELSE p

\* What the platform hands to one statement of playGame: the random draws
\* of the new pickups, the clock reading, the compass readings of the two
\* findApproxFacingDirection calls, the accelerometer reading, the buttons,
\* whether the compass is calibrated.
Inputs(draws, t, h, a, b_pressed, a_pressed, h2, is_calibrated) ==
    [draws |-> draws, t |-> t, h |-> h, a |-> a, b_pressed |-> b_pressed,
     a_pressed |-> a_pressed, h2 |-> h2, is_calibrated |-> is_calibrated]

\* The statements of the commented playGame, on the state c of that
\* program; the rest of both files is the same text.
setupCommented(c, in) ==
    [c EXCEPT !.calls = setupCalls(in.is_calibrated),
              !.display = IF in.is_calibrated THEN c.display
                          ELSE afterCalibrate(c.display),
              !.pc = "playGame"]

playGameCommented(c) ==
    [c EXCEPT !.pickup_amount = INITIAL_PICKUP_AMOUNT,
              !.display = afterScroll(c.display),
              !.calls = <<Call("scroll", "WALK TO PICK UP ITEMS.", 0, 0, 0)>>,
              !.pc = "outer"]

outerLoopCommented(c) ==
    [c EXCEPT !.calls = <<>>,
              !.pc = IF c.game_running THEN "startLevel" ELSE "done"]

startLevelCommented(c, in) ==
    [c EXCEPT !.pickups = spawnPickups(c.pickup_amount, in.draws),
              !.player = resetCommented(c.player),
              !.level_start_time = in.t,
              !.display = Blank,
              !.calls = <<Plain("spawnPickups"), Plain("reset"),
                          Plain("clear"), Plain("running_time")>>,
              !.pc = "inner"]

innerLoopCommented(c) ==
    [c EXCEPT !.calls = <<>>,
              !.pc = IF ~isGameOver(c.pickups) THEN "getInput" ELSE "outer"]

getInputCommented(c, in) ==
    [c EXCEPT !.player =
                  IF exceeds(getAcceleration(in.a),
                             acceleration_needed_to_move)
                  THEN moveCommented(c.player,
                                     findApproxFacingDirection(in.h))
                  ELSE c.player,
              !.calls = getInputCalls(in.h, in.a, in.b_pressed,
                                      in.a_pressed, in.h2),
              !.display = getInputDisplay(c.display, in.b_pressed,
                                          in.a_pressed),
              !.pc = "update"]

updateCommented(c) ==
    [c EXCEPT !.pickups = update(c.pickups, c.player),
              !.calls = <<>>,
              !.pc = "draw"]

drawCommented(c) ==
    [c EXCEPT !.display = draw(c.pickups, c.player),
              !.calls = drawCalls(c.pickups, c.player),
              !.pc = "check"]

levelCheckCommented(c, in) ==
    IF isGameOver(c.pickups)
    THEN [c EXCEPT !.calls = <<Plain("running_time"),
                               Call("scroll", "TIME", 0, 0,
                                    truncSeconds(in.t - c.level_start_time))>>,
                   !.display = afterScroll(c.display),
                   !.pickup_amount = c.pickup_amount + 1,
                   !.pc = "sleep"]
    ELSE [c EXCEPT !.calls = <<>>, !.pc = "sleep"]

sleepCommented(c) ==
    [c EXCEPT !.calls = <<Call("sleep", "", 0, 0, SLEEP_MS)>>,
              !.pc = "inner"]

\* One statement of the commented program, the one it stands at.
stepCommented(c, in) ==
    IF c.pc = "setup" THEN setupCommented(c, in)
    ELSE IF c.pc = "playGame" THEN playGameCommented(c)
    ELSE IF c.pc = "outer" THEN outerLoopCommented(c)
    ELSE IF c.pc = "startLevel" THEN startLevelCommented(c, in)
    ELSE IF c.pc = "inner" THEN innerLoopCommented(c)
    ELSE IF c.pc = "getInput" THEN getInputCommented(c, in)
    ELSE IF c.pc = "update" THEN updateCommented(c)
    ELSE IF c.pc = "draw" THEN drawCommented(c)
    ELSE IF c.pc = "check" THEN levelCheckCommented(c, in)
    ELSE IF c.pc = "sleep" THEN sleepCommented(c)
    ELSE c

\* ------------------------------------------------------------------------
\* playGame, one action per statement of the loop
\* ------------------------------------------------------------------------
\* State when main() constructs the Game: the class bodies have run.
Init ==
    /\ pc = "setup"
    /\ player = NewPlayer
    /\ pickups = <<>>
    /\ pickup_amount = 0
    /\ game_running = TRUE
    /\ level_start_time = 0
    /\ clock = 0
    /\ time_shown = -1
    /\ level = 0
    /\ heading = Steady(0)
    /\ accel = AtRest
    /\ direction = ""
    /\ value = 0
    /\ result = 0
    /\ prev = [player |-> NewPlayer, pickups |-> <<>>]
    /\ display = Blank
    /\ calls = <<>>
    /\ store = NewStore
    /\ commented = NewCommented

\* Game.__init__: self.setup().  is_calibrated is what
\* compass.is_calibrated() returns.
Setup(is_calibrated) ==
    /\ pc = "setup"
    /\ calls' = setupCalls(is_calibrated)
    /\ display' = IF is_calibrated THEN display ELSE afterCalibrate(display)
    /\ pc' = "playGame"
    /\ UNCHANGED <<player, pickups, pickup_amount, game_running,
                   level_start_time, clock, time_shown, level>>

\* Variant: the first level is asked for no pickups.
PlayGameNoPickups ==
    /\ pc = "playGame"
    /\ pickup_amount' = 0
    /\ calls' = <<Call("scroll", "WALK TO PICK UP ITEMS.", 0, 0, 0)>>
    /\ display' = afterScroll(display)
    /\ pc' = "outer"
    /\ UNCHANGED <<player, pickups, game_running, level_start_time, clock,
                   time_shown, level>>

\* playGame, lines 159-161: the intro scroll and pickup_amount = 4.
PlayGame ==
    /\ pc = "playGame"
    /\ pickup_amount' = INITIAL_PICKUP_AMOUNT
    /\ calls' = <<Call("scroll", "WALK TO PICK UP ITEMS.", 0, 0, 0)>>
    /\ display' = afterScroll(display)
    /\ pc' = "outer"
    /\ UNCHANGED <<player, pickups, game_running, level_start_time, clock,
                   time_shown, level>>

\* while self.game_running:
OuterLoop ==
    /\ pc = "outer"
    /\ pc' = IF game_running THEN "startLevel" ELSE "done"
    /\ calls' = <<>>
    /\ UNCHANGED <<player, pickups, pickup_amount, game_running,
                   level_start_time, clock, time_shown, level, display>>

\* self.startLevel(pickup_amount); level_start_time = running_time().
\* draws are the random numbers of the new pickups, t the clock reading.
StartLevel(draws, t) ==
    /\ pc = "startLevel"
    /\ level < MaxLevel
    /\ t >= clock
    /\ pickups' = spawnPickups(pickup_amount, draws)
    /\ player' = reset(player)
    /\ level_start_time' = t
    /\ clock' = t
    /\ level' = level + 1
    /\ display' = Blank
    /\ calls' = <<Plain("spawnPickups"), Plain("reset"), Plain("clear"),
                  Plain("running_time")>>
    /\ pc' = "inner"
    /\ UNCHANGED <<pickup_amount, game_running, time_shown>>

\* Variant: leaving the inner loop ends playGame.
InnerLoopOnce ==
    /\ pc = "inner"
    /\ pc' = IF ~isGameOver(pickups) THEN "getInput" ELSE "done"
    /\ calls' = <<>>
    /\ UNCHANGED <<player, pickups, pickup_amount, game_running,
                   level_start_time, clock, time_shown, level, display>>

\* while not self.isGameOver():
InnerLoop ==
    /\ pc = "inner"
    /\ pc' = IF ~isGameOver(pickups) THEN "getInput" ELSE "outer"
    /\ calls' = <<>>
    /\ UNCHANGED <<player, pickups, pickup_amount, game_running,
                   level_start_time, clock, time_shown, level, display>>

\* The player after Game.getInput: h are the compass readings of the first
\* findApproxFacingDirection call, a the accelerometer reading.
afterInput(p, h, a) ==
    IF exceeds(getAcceleration(a), acceleration_needed_to_move)
    THEN move(p, findApproxFacingDirection(h))
    ELSE p

\* self.getInput().  Button B scrolls the facing direction, sensed anew
\* from the readings h2, and button A (only looked at when B was not
\* pressed) recalibrates the compass; both are platform calls that leave
\* the game state alone.
GetInput(h, a, b_pressed, a_pressed, h2) ==
    /\ pc = "getInput"
    /\ player' = afterInput(player, h, a)
    /\ calls' = getInputCalls(h, a, b_pressed, a_pressed, h2)
    /\ display' = getInputDisplay(display, b_pressed, a_pressed)
    /\ pc' = "update"
    /\ UNCHANGED <<pickups, pickup_amount, game_running, level_start_time,
                   clock, time_shown, level>>

\* Variant: the collision update looks at the position the player had
\* before this tick's getInput.
UpdateStale ==
    /\ pc = "update"
    /\ pickups' = update(pickups, prev.player)
    /\ calls' = <<>>
    /\ pc' = "draw"
    /\ UNCHANGED <<player, pickup_amount, game_running, level_start_time,
                   clock, time_shown, level, display>>

\* self.update()
Update ==
    /\ pc = "update"
    /\ pickups' = update(pickups, player)
    /\ calls' = <<>>
    /\ pc' = "draw"
    /\ UNCHANGED <<player, pickup_amount, game_running, level_start_time,
                   clock, time_shown, level, display>>

\* self.draw()
Draw ==
    /\ pc = "draw"
    /\ display' = draw(pickups, player)
    /\ calls' = drawCalls(pickups, player)
    /\ pc' = "check"
    /\ UNCHANGED <<player, pickups, pickup_amount, game_running,
                   level_start_time, clock, time_shown, level>>

\* Variant: pickup_amount += 1 sits outside the if and runs on every tick.
LevelCheckEveryTick(t) ==
    /\ pc = "check"
    /\ t >= clock
    /\ IF isGameOver(pickups)
       THEN /\ clock' = t
            /\ time_shown' = truncSeconds(t - level_start_time)
            /\ calls' = <<Plain("running_time"),
                          Call("scroll", "TIME", 0, 0,
                               truncSeconds(t - level_start_time))>>
            /\ display' = afterScroll(display)
       ELSE /\ calls' = <<>>
            /\ UNCHANGED <<clock, time_shown, display>>
    /\ pickup_amount' = pickup_amount + 1
    /\ pc' = "sleep"
    /\ UNCHANGED <<player, pickups, game_running, level_start_time, level>>

\* Variant: the tick that completes a level goes straight back to the loop
\* test, without the sleep.
LevelCheckNoSleep(t) ==
    /\ pc = "check"
    /\ IF isGameOver(pickups)
       THEN /\ t >= clock
            /\ clock' = t
            /\ time_shown' = truncSeconds(t - level_start_time)
            /\ calls' = <<Plain("running_time"),
                          Call("scroll", "TIME", 0, 0,
                               truncSeconds(t - level_start_time))>>
            /\ display' = afterScroll(display)
            /\ pickup_amount' = pickup_amount + 1
            /\ pc' = "inner"
       ELSE /\ calls' = <<>>
            /\ pc' = "sleep"
            /\ UNCHANGED <<clock, time_shown, pickup_amount, display>>
    /\ UNCHANGED <<player, pickups, game_running, level_start_time, level>>

\* if self.isGameOver(): report the time and raise pickup_amount.
\* t is the clock reading taken when the level is over.
LevelCheck(t) ==
    /\ pc = "check"
    /\ t >= clock
    /\ IF isGameOver(pickups)
       THEN /\ clock' = t
            /\ time_shown' = truncSeconds(t - level_start_time)
            /\ calls' = <<Plain("running_time"),
                          Call("scroll", "TIME", 0, 0,
                               truncSeconds(t - level_start_time))>>
            /\ display' = afterScroll(display)
            /\ pickup_amount' = pickup_amount + 1
       ELSE /\ calls' = <<>>
            /\ UNCHANGED <<clock, time_shown, pickup_amount, display>>
    /\ pc' = "sleep"
    /\ UNCHANGED <<player, pickups, game_running, level_start_time, level>>

\* sleep(100)
Sleep ==
    /\ pc = "sleep"
    /\ calls' = <<Call("sleep", "", 0, 0, SLEEP_MS)>>
    /\ pc' = "inner"
    /\ UNCHANGED <<player, pickups, pickup_amount, game_running,
                   level_start_time, clock, time_shown, level, display>>

RandDraws(amount) == [1..amount -> RandCells]

Next ==
    \/ (\E k \in BOOLEAN : Setup(k)) /\ UNCHANGED callVars
    \/ PlayGame /\ UNCHANGED callVars
    \/ OuterLoop /\ UNCHANGED callVars
    \/ \E draws \in RandDraws(pickup_amount) :
          StartLevel(draws, clock) /\ UNCHANGED callVars
    \/ InnerLoop /\ UNCHANGED callVars
    \/ \E d \in GameHeadings, inp \in GameInputs :
          GetInput(Steady(d), inp[1], inp[2], inp[3], Steady(d))
          /\ UNCHANGED callVars
    \/ Update /\ UNCHANGED callVars
    \/ Draw /\ UNCHANGED callVars
    \/ LevelCheck(clock) /\ UNCHANGED callVars
    \/ Sleep /\ UNCHANGED callVars

Spec == Init /\ [][Next]_vars

\* The program is the only thread of control and every platform call
\* returns, so a statement that can run does run.
SpecLive == Spec /\ WF_vars(Next)

\* ------------------------------------------------------------------------
\* The game loop with a running clock: all pickups spawn on the centre cell
\* and the compass points north.
\* ------------------------------------------------------------------------
CentreDraws(amount) == [1..amount -> {<<SCREEN_CENTER, SCREEN_CENTER>>}]

NextTime ==
    \/ (\E k \in BOOLEAN : Setup(k)) /\ UNCHANGED callVars
    \/ PlayGame /\ UNCHANGED callVars
    \/ OuterLoop /\ UNCHANGED callVars
    \/ \E draws \in CentreDraws(pickup_amount), t \in Times :
          StartLevel(draws, t) /\ UNCHANGED callVars
    \/ InnerLoop /\ UNCHANGED callVars
    \/ \E a \in GameAccels, b \in BOOLEAN, c \in BOOLEAN :
          GetInput(Steady(0), a, b, c, Steady(0)) /\ UNCHANGED callVars
    \/ Update /\ UNCHANGED callVars
    \/ Draw /\ UNCHANGED callVars
    \/ \E t \in Times : LevelCheck(t) /\ UNCHANGED callVars
    \/ Sleep /\ UNCHANGED callVars

SpecTime == Init /\ [][NextTime]_vars

\* ------------------------------------------------------------------------
\* The running level with steady sensors: the first level has started, its
\* pickups all lie in the south-west corner, and the compass and the
\* accelerometer return the same readings on every tick.
\* ------------------------------------------------------------------------
CornerPickups ==
    [i \in 1..INITIAL_PICKUP_AMOUNT |-> Pickup(MIN_POSITION, MAX_POSITION)]

InitInput ==
    /\ pc = "getInput"
    /\ player = NewPlayer
    /\ pickups = CornerPickups
    /\ pickup_amount = INITIAL_PICKUP_AMOUNT
    /\ game_running = TRUE
    /\ level_start_time = 0
    /\ clock = 0
    /\ time_shown = -1
    /\ level = 1
    /\ heading \in {Steady(d) : d \in GameHeadings}
    /\ accel \in AccelVals \X AccelVals \X AccelVals
    /\ direction = ""
    /\ value = 0
    /\ result = 0
    /\ prev = [player |-> NewPlayer, pickups |-> CornerPickups]
    /\ display = Blank
    /\ calls = <<>>
    /\ store = NewStore
    /\ commented = NewCommented

NextInput ==
    \/ InnerLoop /\ UNCHANGED callVars
    \/ \E b \in BOOLEAN, c \in BOOLEAN :
          /\ GetInput(heading, accel, b, c, heading)
          /\ prev' = [player |-> player, pickups |-> pickups]
          /\ UNCHANGED <<heading, accel, direction, value, result, store,
                     commented>>
    \/ Update /\ UNCHANGED callVars
    \/ Draw /\ UNCHANGED callVars
    \/ LevelCheck(clock) /\ UNCHANGED callVars
    \/ Sleep /\ UNCHANGED callVars

SpecInput == InitInput /\ [][NextInput]_vars

\* ------------------------------------------------------------------------
\* Single calls on drawn inputs
\* ------------------------------------------------------------------------
Players == {[x |-> px, y |-> py, brightness |-> PLAYER_BRIGHTNESS] :
               px \in Grid, py \in Grid}

\* The fields a single call does not touch.
Idle ==
    /\ pickup_amount = INITIAL_PICKUP_AMOUNT
    /\ game_running = TRUE
    /\ level_start_time = 0
    /\ clock = 0
    /\ time_shown = -1
    /\ level = 1
    /\ display = Blank
    /\ calls = <<>>
    /\ store = NewStore
    /\ commented = NewCommented

\* Player.constrainToBoundaries(value)
InitClamp ==
    /\ pc = "constrainToBoundaries"
    /\ value \in (-MaxValue)..MaxValue
    /\ result = 0
    /\ player = NewPlayer
    /\ pickups = <<>>
    /\ Idle
    /\ heading = Steady(0)
    /\ accel = AtRest
    /\ direction = ""
    /\ prev = [player |-> NewPlayer, pickups |-> <<>>]

CallClamp ==
    /\ pc = "constrainToBoundaries"
    /\ result' = constrainToBoundaries(value)
    /\ pc' = "returned"
    /\ UNCHANGED <<player, pickups, pickup_amount, game_running,
                   level_start_time, clock, time_shown, level, heading,
                   accel, direction, value, prev, display, calls, store,
                   commented>>

SpecClamp == InitClamp /\ [][CallClamp]_vars

\* Game.findApproxFacingDirection() under a steady heading
InitDirection ==
    /\ pc = "findApproxFacingDirection"
    /\ heading \in {Steady(d) : d \in AllHeadings}
    /\ direction = ""
    /\ player = NewPlayer
    /\ pickups = <<>>
    /\ Idle
    /\ accel = AtRest
    /\ value = 0
    /\ result = 0
    /\ prev = [player |-> NewPlayer, pickups |-> <<>>]

CallDirection ==
    /\ pc = "findApproxFacingDirection"
    /\ direction' = findApproxFacingDirection(heading)
    /\ pc' = "returned"
    /\ UNCHANGED <<player, pickups, pickup_amount, game_running,
                   level_start_time, clock, time_shown, level, heading,
                   accel, value, result, prev, display, calls, store,
                   commented>>

SpecDirection == InitDirection /\ [][CallDirection]_vars

\* Game.findApproxFacingDirection() while the heading changes: every read
\* may return any of a few values on either side of North and in the East.
ReadValues == {44, 100, 314, 316}

InitReads ==
    /\ pc = "findApproxFacingDirection"
    /\ heading \in [1..HEADING_READS -> ReadValues]
    /\ direction = ""
    /\ player = NewPlayer
    /\ pickups = <<>>
    /\ Idle
    /\ accel = AtRest
    /\ value = 0
    /\ result = 0
    /\ prev = [player |-> NewPlayer, pickups |-> <<>>]

SpecReads == InitReads /\ [][CallDirection]_vars

\* Player.move(direction)
InitMove ==
    /\ pc = "move"
    /\ player \in Players
    /\ direction \in Directions
    /\ prev = [player |-> player, pickups |-> <<>>]
    /\ pickups = <<>>
    /\ Idle
    /\ heading = Steady(0)
    /\ accel = AtRest
    /\ value = 0
    /\ result = 0

CallMove ==
    /\ pc = "move"
    /\ player' = move(player, direction)
    /\ prev' = [player |-> player, pickups |-> pickups]
    /\ pc' = "returned"
    /\ UNCHANGED <<pickups, pickup_amount, game_running, level_start_time,
                   clock, time_shown, level, heading, accel, direction,
                   value, result, display, calls, store, commented>>

SpecMove == InitMove /\ [][CallMove]_vars

\* Game.update() on any player position and any short pickup collection
UpdateCells == {<<2, 2>>, <<3, 3>>, <<2, 3>>}
Collections ==
    UNION {[1..n -> {Pickup(c[1], c[2]) : c \in UpdateCells}] :
              n \in 0..MaxPickups}

InitUpdate ==
    /\ pc = "update"
    /\ player \in Players
    /\ pickups \in Collections
    /\ prev = [player |-> player, pickups |-> pickups]
    /\ Idle
    /\ heading = Steady(0)
    /\ accel = AtRest
    /\ direction = ""
    /\ value = 0
    /\ result = 0

CallUpdate ==
    /\ Update
    /\ prev' = [player |-> player, pickups |-> pickups]
    /\ UNCHANGED <<heading, accel, direction, value, result, store,
                     commented>>

SpecUpdate == InitUpdate /\ [][CallUpdate]_vars

\* ------------------------------------------------------------------------
\* The game with the object store: every statement of playGame is also
\* done on the Position objects.  The buttons play no part in it.
\* ------------------------------------------------------------------------
inputVars == <<heading, accel, direction, value, result, prev>>

NextAlias ==
    \/ (\E k \in BOOLEAN : Setup(k)) /\ UNCHANGED callVars
    \/ PlayGame /\ UNCHANGED callVars
    \/ OuterLoop /\ UNCHANGED callVars
    \/ \E draws \in RandDraws(pickup_amount) :
          /\ StartLevel(draws, clock)
          /\ store' = startLevelRef(store, pickup_amount, draws)
          /\ UNCHANGED <<inputVars, commented>>
    \/ InnerLoop /\ UNCHANGED callVars
    \/ \E d \in GameHeadings, a \in GameAccels :
          /\ GetInput(Steady(d), a, FALSE, FALSE, Steady(d))
          /\ store' = getInputRef(store, Steady(d), a)
          /\ UNCHANGED <<inputVars, commented>>
    \/ /\ Update
       /\ store' = updateRef(store)
       /\ UNCHANGED <<inputVars, commented>>
    \/ Draw /\ UNCHANGED callVars
    \/ LevelCheck(clock) /\ UNCHANGED callVars
    \/ Sleep /\ UNCHANGED callVars

SpecAlias == Init /\ [][NextAlias]_vars

\* ------------------------------------------------------------------------
\* The game with the commented program run alongside: whenever playGame
\* does a statement, the commented program does its own next statement on
\* the same inputs.  The clock may have advanced by the time a level is
\* reported complete.
\* ------------------------------------------------------------------------
NoInput == Inputs(<<>>, 0, Steady(0), AtRest, FALSE, FALSE, Steady(0), TRUE)
ReportDelays == {0, 3 * (MS_PER_SECOND \div 2)}

NextPair ==
    \/ \E k \in BOOLEAN :
          /\ Setup(k)
          /\ commented' = stepCommented(commented,
                 [NoInput EXCEPT !.is_calibrated = k])
          /\ UNCHANGED <<inputVars, store>>
    \/ /\ PlayGame
       /\ commented' = stepCommented(commented, NoInput)
       /\ UNCHANGED <<inputVars, store>>
    \/ /\ OuterLoop
       /\ commented' = stepCommented(commented, NoInput)
       /\ UNCHANGED <<inputVars, store>>
    \/ \E draws \in RandDraws(pickup_amount) :
          /\ StartLevel(draws, clock)
          /\ commented' = stepCommented(commented,
                 Inputs(draws, clock, Steady(0), AtRest, FALSE, FALSE,
                        Steady(0), TRUE))
          /\ UNCHANGED <<inputVars, store>>
    \/ /\ InnerLoop
       /\ commented' = stepCommented(commented, NoInput)
       /\ UNCHANGED <<inputVars, store>>
    \/ \E d \in GameHeadings, inp \in GameInputs :
          /\ GetInput(Steady(d), inp[1], inp[2], inp[3], Steady(d))
          /\ commented' = stepCommented(commented,
                 Inputs(<<>>, 0, Steady(d), inp[1], inp[2], inp[3],
                        Steady(d), TRUE))
          /\ UNCHANGED <<inputVars, store>>
    \/ /\ Update
       /\ commented' = stepCommented(commented, NoInput)
       /\ UNCHANGED <<inputVars, store>>
    \/ /\ Draw
       /\ commented' = stepCommented(commented, NoInput)
       /\ UNCHANGED <<inputVars, store>>
    \/ \E delay \in ReportDelays :
          /\ clock + delay \in Times
          /\ LevelCheck(clock + delay)
          /\ commented' = stepCommented(commented,
                 Inputs(<<>>, clock + delay, Steady(0), AtRest, FALSE,
                        FALSE, Steady(0), TRUE))
          /\ UNCHANGED <<inputVars, store>>
    \/ /\ Sleep
       /\ commented' = stepCommented(commented, NoInput)
       /\ UNCHANGED <<inputVars, store>>

SpecPair == Init /\ [][NextPair]_vars

\* ------------------------------------------------------------------------
\* The ticks of one level from any of a few situations: the player on or
\* next to the centre, one or two pickups on or next to the player, a
\* steady heading and a steady accelerometer reading.  prev is the state at
\* the start of the tick.
\* ------------------------------------------------------------------------
TickPlayers == {[x |-> c[1], y |-> c[2], brightness |-> PLAYER_BRIGHTNESS] :
                   c \in {<<2, 2>>, <<3, 2>>, <<2, 4>>}}
TickCollections ==
    UNION {[1..n -> {Pickup(c[1], c[2]) : c \in UpdateCells}] : n \in 1..2}

InitTick ==
    /\ pc = "getInput"
    /\ player \in TickPlayers
    /\ pickups \in TickCollections
    /\ prev = [player |-> player, pickups |-> pickups]
    /\ Idle
    /\ heading \in {Steady(d) : d \in GameHeadings}
    /\ accel \in GameAccels
    /\ direction = ""
    /\ value = 0
    /\ result = 0

SpecTick == InitTick /\ [][NextInput]_vars

\* ------------------------------------------------------------------------
\* One call of Game.getInput: the player anywhere, two pickups on the
\* grid, a steady heading on a compass point or on a boundary between two
\* of them, the accelerometer at rest, on the threshold or above it, and
\* the buttons pressed or not.
\* ------------------------------------------------------------------------
InputHeadings == {0, 45, 90, 135, 180, 225, 270, 315}
OnThreshold == <<acceleration_needed_to_move, 0, 0>>
InputAccels == {AtRest, OnThreshold, Shaken}
InputPickups == <<Pickup(2, 2), Pickup(3, 1)>>

InitGetInput ==
    /\ pc = "getInput"
    /\ player \in Players
    /\ pickups = InputPickups
    /\ prev = [player |-> player, pickups |-> pickups]
    /\ Idle
    /\ heading \in {Steady(d) : d \in InputHeadings}
    /\ accel \in InputAccels
    /\ direction = ""
    /\ value = 0
    /\ result = 0

CallGetInput ==
    \E b \in BOOLEAN, c \in BOOLEAN :
        /\ GetInput(heading, accel, b, c, heading)
        /\ prev' = [player |-> player, pickups |-> pickups]
        /\ UNCHANGED <<heading, accel, direction, value, result, store,
                     commented>>

SpecGetInput == InitGetInput /\ [][CallGetInput]_vars

\* ========================================================================
\* Properties
\* ========================================================================
sameCell(a, b) == a.x = b.x /\ a.y = b.y
Max(a, b) == IF a >= b THEN a ELSE b
Min(a, b) == IF a <= b THEN a ELSE b

\* C1: in every reachable state of the game (after construction, after
\* every reset and after every move, whatever the direction, the empty one
\* included) the player's x and y are integers in [0,4].
C1_PlayerInGrid ==
    /\ player.x \in Int /\ player.x >= 0 /\ player.x <= 4
    /\ player.y \in Int /\ player.y >= 0 /\ player.y <= 4

\* The player has walked into the north-west corner.
C1_Witness ==
    /\ pc = "update"
    /\ player.x = MIN_POSITION
    /\ player.y = MIN_POSITION

\* C2: when Game.update has returned, no pickup left in the collection lies
\* on the player's cell.
C2_AllCollisionsResolved ==
    pc = "draw" =>
        \A i \in 1..Len(pickups) : ~sameCell(pickups[i], player)

\* The pickups of s that do not lie on cell p, in order.
RECURSIVE offCell(_, _)
offCell(s, p) ==
    IF s = <<>> THEN <<>>
    ELSE IF sameCell(Head(s), p) THEN offCell(Tail(s), p)
         ELSE <<Head(s)>> \o offCell(Tail(s), p)

\* s can be had from t by deleting elements.
RECURSIVE isSubSeq(_, _)
isSubSeq(s, t) ==
    IF s = <<>> THEN TRUE
    ELSE IF t = <<>> THEN FALSE
    ELSE IF Head(s) = Head(t) THEN isSubSeq(Tail(s), Tail(t))
         ELSE isSubSeq(s, Tail(t))

\* C3: Game.update removes only pickups on the player's cell: the pickups
\* on other cells are all still there, with their position, brightness and
\* order, nothing is added, and the player is where it was; with the player
\* on (2,2) and pickups [(2,2),(3,3)] exactly [(3,3)] is left.
C3_UpdateFrame ==
    pc = "draw" =>
        /\ offCell(pickups, player) = offCell(prev.pickups, prev.player)
        /\ isSubSeq(pickups, prev.pickups)
        /\ player = prev.player
        /\ (/\ prev.player = NewPlayer
            /\ prev.pickups = <<Pickup(2, 2), Pickup(3, 3)>>)
           => pickups = <<Pickup(3, 3)>>

\* update ran on the player at (2,2) and pickups [(2,2),(3,3)].
C3_Witness ==
    /\ pc = "draw"
    /\ prev.player = NewPlayer
    /\ prev.pickups = <<Pickup(2, 2), Pickup(3, 3)>>
    /\ pickups = <<Pickup(3, 3)>>

\* C4: for a heading h in [0,360) that is steady during the call,
\* findApproxFacingDirection returns N iff h > 315 or h < 45, W iff
\* 225 < h < 315, S iff 135 < h < 225, E iff 45 < h < 135, the empty value
\* iff h is 45, 135, 225 or 315, and nothing else.
C4_DirectionTable ==
    pc = "returned" =>
        LET h == heading[1]
        IN /\ direction \in {"N", "W", "S", "E", ""}
           /\ direction = "N" <=> (h > 315 \/ h < 45)
           /\ direction = "W" <=> (225 < h /\ h < 315)
           /\ direction = "S" <=> (135 < h /\ h < 225)
           /\ direction = "E" <=> (45 < h /\ h < 135)
           /\ direction = "" <=> h \in {45, 135, 225, 315}

\* The call returned the empty value for a heading of exactly 315.
C4_Witness ==
    /\ pc = "returned"
    /\ heading[1] = 315
    /\ direction = ""

\* C5: getInput calls Player.move with the sensed direction iff
\* x^2 + y^2 + z^2 > 1200^2 and leaves the player alone otherwise (1200
\* exactly does not move, 1201 does, the resting (1000,0,0) does not); the
\* test is made afresh on every tick, so a reading that stays above the
\* threshold moves the player on every tick.
C5_MotionThreshold ==
    [][pc = "getInput" =>
          LET sumsq == accel[1] * accel[1] + accel[2] * accel[2]
                       + accel[3] * accel[3]
              d == findApproxFacingDirection(heading)
          IN /\ sumsq > 1200 * 1200 => player' = move(player, d)
             /\ sumsq <= 1200 * 1200 => player' = player
             /\ (sumsq > 1200 * 1200 /\ d = "E" /\ player.x < MAX_POSITION)
                => player'.x = player.x + 1]_vars

\* With a steady reading of (1201,0,0) facing east the player, already one
\* cell east of the centre, has moved a second tick in a row.
C5_Witness ==
    /\ pc = "update"
    /\ accel = <<1201, 0, 0>>
    /\ heading = Steady(90)
    /\ prev.player.x = SCREEN_CENTER + 1
    /\ player.x = SCREEN_CENTER + 2

\* C6: Player.move moves one cell in the given direction and saturates at
\* the edges: N gives (x, max(y-1,0)), S (x, min(y+1,4)), W (max(x-1,0), y),
\* E (min(x+1,4), y); the other axis and the brightness never change.
C6_MoveSaturates ==
    pc = "returned" =>
        LET p == prev.player
        IN /\ direction = "N" =>
                 player = [p EXCEPT !.y = Max(p.y - 1, 0)]
           /\ direction = "S" =>
                 player = [p EXCEPT !.y = Min(p.y + 1, 4)]
           /\ direction = "W" =>
                 player = [p EXCEPT !.x = Max(p.x - 1, 0)]
           /\ direction = "E" =>
                 player = [p EXCEPT !.x = Min(p.x + 1, 4)]

\* A player on the west edge was moved west and is still there.
C6_Witness ==
    /\ pc = "returned"
    /\ direction = "W"
    /\ prev.player.x = 0
    /\ player = prev.player

\* C7: the k-th level starts with exactly k+3 pickups (the first with 4);
\* pickup_amount is set to 4 when playGame begins, goes up by exactly 1 at
\* every level completion and is changed by nothing else.
C7_LevelProgression ==
    [][/\ (pc = "startLevel" /\ pc' = "inner")
          => (Len(pickups') = level' + 3 /\ pickup_amount = level' + 3)
       /\ (pc = "check" /\ isGameOver(pickups))
          => pickup_amount' = pickup_amount + 1
       /\ (pickup_amount' # pickup_amount)
          => \/ pc = "playGame" /\ pickup_amount' = 4
             \/ pc = "check" /\ isGameOver(pickups)]_vars

\* The second level has just started, with five pickups.
C7_Witness ==
    /\ pc = "inner"
    /\ level = 2
    /\ Len(pickups) = 5
    /\ pickup_amount = 5

\* C8: playGame has no terminal state: game_running stays true, playGame
\* never returns, every state has a next step (until the model's level
\* bound stops startLevel), and every level completion is followed by the
\* start of the next level.
C8_NoTerminalState ==
    /\ [](game_running /\ pc # "done")
    /\ []((pc = "startLevel" /\ level >= MaxLevel) \/ ENABLED Next)
    /\ \A k \in 1..(MaxLevel - 1) :
          (pc = "check" /\ isGameOver(pickups) /\ level = k)
              ~> (pc = "inner" /\ level = k + 1)

\* The first level was completed and the second one is running.
C8_Witness ==
    /\ pc = "getInput"
    /\ level = 2
    /\ pickup_amount = 5
    /\ time_shown >= 0

\* C9: the time reported at completion is (now - level_start) / 1000
\* truncated (2500 ms reports 2), never negative, where level_start is the
\* clock reading taken when this level started: it is recorded at every
\* level start and changed nowhere else.
C9_ElapsedSeconds ==
    [][/\ pc = "startLevel" => level_start_time' = clock'
       /\ pc # "startLevel" => level_start_time' = level_start_time
       /\ (pc = "check" /\ isGameOver(pickups))
          => LET elapsed == clock' - level_start_time
             IN /\ time_shown' >= 0
                /\ time_shown' * 1000 <= elapsed
                /\ elapsed < (time_shown' + 1) * 1000
                /\ elapsed = 2500 => time_shown' = 2]_vars

\* The second level started at 500 ms and was completed at 3000 ms: 2500 ms
\* elapsed and 2 seconds were reported.
C9_Witness ==
    /\ pc = "sleep"
    /\ level = 2
    /\ level_start_time = 500
    /\ clock = 3000
    /\ time_shown = 2

\* C10: constrainToBoundaries is idempotent, the identity on [0,4], 0 below
\* the range and 4 above it.
C10_ClampIdempotent ==
    pc = "returned" =>
        /\ constrainToBoundaries(result) = result
        /\ (value >= 0 /\ value <= 4) => result = value
        /\ value < 0 => result = 0
        /\ value > 4 => result = 4

\* A value above the range was clamped to 4.
C10_Witness ==
    /\ pc = "returned"
    /\ value > MAX_POSITION
    /\ result = MAX_POSITION
\* C15: after the render step the player's cell shows brightness 9, also
\* when a pickup is still on that cell; every other cell holding at least
\* one pickup shows brightness 3; every remaining cell is off.
playerCell == <<player.x, player.y>>
pickupOn(c) == \E i \in 1..Len(pickups) : <<pickups[i].x, pickups[i].y>> = c
C15_RenderedFrame ==
    pc = "check" =>
        \A c \in Grid \X Grid :
            display[c] = IF c = playerCell THEN 9
                         ELSE IF pickupOn(c) THEN 3
                         ELSE 0
C15_Witness ==
    /\ pc = "check"
    /\ pickupOn(playerCell)
    /\ \E c \in Grid \X Grid : c # playerCell /\ pickupOn(c)
    /\ display[playerCell] = 9

\* C16: every tick ends with exactly one sleep of 100 ms, whether or not
\* the tick completed the level: the completion check is always followed by
\* the sleep, which comes after the report and the increment and before
\* the loop tests that lead to the next level start.
sleepCalls(log) == {i \in 1..Len(log) : log[i].op = "sleep"}
C16_TickEndsWithSleep ==
    [][/\ pc = "check" => pc' = "sleep" /\ sleepCalls(calls') = {}
       /\ pc = "sleep" => /\ calls' = <<Call("sleep", "", 0, 0, 100)>>
                          /\ pc' = "inner"
                          /\ pickup_amount' = pickup_amount
                          /\ time_shown' = time_shown
       /\ pc # "sleep" => sleepCalls(calls') = {}
       /\ pc' = "startLevel" => pc = "outer"
       /\ pc' = "outer" /\ pc # "playGame" => pc = "inner"
       /\ pc' = "inner" => pc \in {"sleep", "startLevel"}
       /\ pc' = "getInput" => pc = "inner"]_vars
C16_Witness ==
    /\ pc = "inner"
    /\ calls = <<Call("sleep", "", 0, 0, 100)>>
    /\ isGameOver(pickups)
    /\ pickup_amount = INITIAL_PICKUP_AMOUNT + 1

\* C11: when startLevel returns, the collection holds exactly pickup_amount
\* pickups and none of the previous level's (the list it replaces is empty
\* by then and is cleared first), every pickup has x and y in [0, 4] and
\* brightness 3, and the player is at (2, 2) with brightness 9.
C11_LevelStart ==
    [][pc = "startLevel" =>
          /\ pickups = <<>>
          /\ Len(pickups') = pickup_amount
          /\ pickup_amount' = pickup_amount
          /\ \A i \in 1..Len(pickups') :
                 /\ pickups'[i].x \in 0..4
                 /\ pickups'[i].y \in 0..4
                 /\ pickups'[i].brightness = 3
          /\ player' = [x |-> 2, y |-> 2, brightness |-> 9]]_vars
C11_Witness ==
    /\ pc = "inner"
    /\ calls # <<>> /\ calls[1].op = "spawnPickups"
    /\ level = 2
    /\ Len(pickups) = INITIAL_PICKUP_AMOUNT + 1
    /\ \E i \in 1..Len(pickups) : pickups[i].x = 3 /\ pickups[i].y = 1
    /\ player = NewPlayer
    /\ display = Blank

\* C12: within every tick the steps run in one fixed order, each once:
\* sense direction and motion, move the player, handle the buttons,
\* collision update, render, completion check, sleep.  The update works on
\* the player's position after this tick's move and the render on the
\* collection after this tick's update.
opsAt(log, names) == {i \in 1..Len(log) : log[i].op \in names}
C12_TickOrder ==
    [][/\ pc = "inner" => pc' \in {"getInput", "outer"}
       /\ pc = "getInput" => pc' = "update"
       /\ pc = "update" => pc' = "draw" /\ player' = player
       /\ pc = "draw" => pc' = "check" /\ pickups' = pickups
       /\ pc = "check" => pc' = "sleep"
       /\ pc = "sleep" => pc' = "inner"
       /\ pc' = "update" =>
             LET moves == opsAt(calls', {"move"})
                 buttons == opsAt(calls', {"button_b.was_pressed",
                                           "button_a.was_pressed",
                                           "scroll", "calibrate"})
             IN /\ calls'[1].op = "findApproxFacingDirection"
                /\ calls'[2].op = "getAcceleration"
                /\ moves \subseteq {3}
                /\ moves = {} => player' = player
                /\ buttons # {}
                /\ \A i \in buttons : i > 2 /\ \A m \in moves : i > m
                /\ Cardinality(opsAt(calls', {"button_b.was_pressed"})) = 1
                /\ player' = afterInput(prev'.player, heading, accel)
       /\ pc' = "draw" =>
             pickups' = update(prev'.pickups,
                               afterInput(prev'.player, heading, accel))
       /\ pc' = "check" =>
             /\ pickups' = update(prev'.pickups, player')
             /\ display' = draw(pickups', player')]_vars
C12_Witness ==
    /\ pc = "check"
    /\ player # prev.player
    /\ \A i \in 1..Len(prev.pickups) : ~sameCell(prev.pickups[i], prev.player)
    /\ Len(pickups) < Len(prev.pickups)
    /\ pickups # <<>>
    /\ display = draw(pickups, player)

\* C13: the completion of a level is reported exactly once per level, in
\* the tick whose collision update emptied the collection and before that
\* tick's sleep, never while a pickup remains; pickup_amount goes up by one
\* in that same step.  E.g. the last pickup at (3,1) is taken by a player
\* who walked East then North from (2,2).
reported(log) == \E i \in 1..Len(log) : log[i].op = "scroll" /\ log[i].text = "TIME"
completions == pickup_amount - INITIAL_PICKUP_AMOUNT
C13_CompletionReport ==
    [][/\ reported(calls') = (pc = "check" /\ pickups = <<>>)
       /\ reported(calls') =>
             /\ pickup_amount' = pickup_amount + 1
             /\ completions = level - 1
             /\ pickups' = <<>>
             /\ pc' = "sleep"
       /\ pc = "update" => pickups # <<>>
       /\ pc = "draw" => pickups' = pickups
       /\ pc = "check" /\ pickups # <<>> =>
             pickup_amount' = pickup_amount /\ completions = level - 1
       /\ pc = "startLevel" => completions = level
       /\ pc \in {"getInput", "update", "draw"} => completions = level - 1
       /\ pc = "sleep" => (completions = level) = (pickups = <<>>)]_vars
C13_Witness ==
    /\ pc = "sleep"
    /\ reported(calls)
    /\ pickups = <<>>
    /\ player.x = 3 /\ player.y = 1
    /\ display = Blank
    /\ time_shown = 0
    /\ pickup_amount = INITIAL_PICKUP_AMOUNT + 1

\* C14: a getInput whose motion trigger is false, or whose heading is
\* exactly 45, 135, 225 or 315 (no direction resolved), leaves the player
\* where it was; every getInput changes at most one coordinate of the
\* player, by at most 1, and changes neither the pickup collection nor
\* pickup_amount.
distance(a, b) == Max(a - b, b - a)
C14_GetInputFrame ==
    [][pc = "getInput" =>
          /\ (~exceeds(getAcceleration(accel), 1200)
               \/ heading[1] \in {45, 135, 225, 315}) => player' = player
          /\ distance(player'.x, player.x) + distance(player'.y, player.y) <= 1
          /\ player'.brightness = player.brightness
          /\ pickups' = pickups
          /\ pickup_amount' = pickup_amount]_vars
C14_Witness ==
    /\ pc = "update"
    /\ exceeds(getAcceleration(accel), 1200)
    /\ heading[1] = 315
    /\ prev.player.y > 0
    /\ player = prev.player
    /\ \E i \in 1..Len(calls) : calls[i].op = "move" /\ calls[i].text = ""

\* C20: within a level the number of live pickups never goes up (only a
\* level start makes it grow, only the collision update makes it shrink);
\* a level starts with at least one pickup, so its first loop test enters
\* a tick, and the inner loop is only left after the completion branch has
\* run for that level.
C20_LiveCount ==
    [][/\ pc # "startLevel" => Len(pickups') <= Len(pickups)
       /\ pc \notin {"startLevel", "update"} => Len(pickups') = Len(pickups)
       /\ pc = "startLevel" =>
             /\ Len(pickups') >= 1
             /\ Len(pickups') >= Len(pickups)
             /\ pc' = "inner"
       /\ pc = "inner" /\ pickups # <<>> => pc' = "getInput"
       /\ pc = "inner" /\ pc' = "outer" =>
             /\ level >= 1
             /\ pickup_amount = INITIAL_PICKUP_AMOUNT + level
             /\ \E i \in 1..Len(calls) : calls[i].op = "sleep"]_vars
C20_Witness ==
    /\ pc = "outer"
    /\ level = 1
    /\ pickups = <<>>
    /\ pickup_amount = INITIAL_PICKUP_AMOUNT + 1
    /\ time_shown >= 0

\* C18: the direction a findApproxFacingDirection call returns is the
\* table direction of at least one of the heading values it read, also
\* when the heading changes between its reads.
quantize(d) ==
    IF d > 315 \/ d < 45 THEN "N"
    ELSE IF d > 225 /\ d < 315 THEN "W"
    ELSE IF d > 135 /\ d < 225 THEN "S"
    ELSE IF d > 45 /\ d < 135 THEN "E"
    ELSE ""
C18_DirectionOfSampledHeading ==
    pc = "returned" =>
        \E i \in 1..readsUsed(heading) : quantize(heading[i]) = direction

\* C17: MicroPickup.py and MicroPickupCommented.py are the same program:
\* on the same readings, button presses, clock values and random draws
\* they stand at the same statement with the same player position, pickup
\* collection and pickup_amount, have made the same calls and show the
\* same display; completion_time stays 0 and takes part in nothing.
C17_SameProgram ==
    /\ commented.pc = pc
    /\ commented.player.x = player.x
    /\ commented.player.y = player.y
    /\ commented.player.brightness = player.brightness
    /\ commented.pickups = pickups
    /\ commented.pickup_amount = pickup_amount
    /\ commented.game_running = game_running
    /\ commented.calls = calls
    /\ commented.display = display
    /\ commented.player.completion_time = 0
C17_Witness ==
    /\ commented.pc = "inner"
    /\ commented.pickup_amount = INITIAL_PICKUP_AMOUNT + 1
    /\ Len(commented.pickups) = INITIAL_PICKUP_AMOUNT + 1
    /\ commented.level_start_time > 0
    /\ commented.calls # <<>> /\ commented.calls[1].op = "spawnPickups"
    /\ commented.player = NewPlayerCommented
    /\ display = Blank /\ level = 2

\* C19: the player and the pickups never share a Position, although
\* position is a class-level default of GameObject: the player's Position
\* is none of the pickups', every pickup has one of its own, Player.move
\* and Player.reset leave every pickup's Position as it is, spawning
\* leaves the player's, and a pickup's Position does not change between
\* its spawn and its removal.
refsOf(st) == {st.pickupPos[i] : i \in 1..Len(st.pickupPos)}
C19_NoSharedPosition ==
    /\ [](/\ store.playerPos \notin refsOf(store)
          /\ Cardinality(refsOf(store)) = Len(store.pickupPos)
          /\ store.cells[store.playerPos] = [x |-> player.x, y |-> player.y]
          /\ Len(store.pickupPos) = Len(pickups)
          /\ \A i \in 1..Len(pickups) :
                 store.cells[store.pickupPos[i]]
                     = [x |-> pickups[i].x, y |-> pickups[i].y])
    /\ [][/\ \A a \in refsOf(store) \cap refsOf(store') :
                store'.cells[a] = store.cells[a]
          /\ pc # "startLevel" => refsOf(store') \subseteq refsOf(store)
          /\ pc = "getInput" => store'.pickupPos = store.pickupPos
          /\ pc = "getInput" =>
                \A d \in Directions : \A a \in refsOf(store) :
                    moveRef(store, d).cells[a] = store.cells[a]
          /\ pc' = "getInput" =>
                \A a \in refsOf(store') :
                    resetRef(store').cells[a] = store'.cells[a]
          /\ pc = "startLevel" =>
                \A draws \in RandDraws(pickup_amount) :
                    spawnRefs(store, pickup_amount, draws)
                        .cells[store.playerPos]
                            = store.cells[store.playerPos]]_vars
C19_Witness ==
    /\ pc = "draw"
    /\ store.cells[store.playerPos] = [x |-> 3, y |-> 1]
    /\ Len(store.pickupPos) = 2
    /\ \A a \in refsOf(store) : store.cells[a] = [x |-> 2, y |-> 2]
    /\ store.next > INITIAL_PICKUP_AMOUNT

====
